---- MODULE Spec2Model ----
(***************************************************************************)
(* Model of geospatial_utilities.py: the UTM/EPSG helpers, the reprojecting *)
(* sampler resample_and_extract_value, the nearest-pixel extractor          *)
(* extract_values_at_coordinates and the windowed lee_filter.               *)
(*                                                                         *)
(* Angles are fixed-point integers, U units per degree.  Floating-point     *)
(* rounding is not modelled: arithmetic is exact.  Values produced by the   *)
(* raster, projection and resampling libraries are inputs drawn from small  *)
(* sets at the step that obtains them.                                      *)
(***************************************************************************)
EXTENDS Integers, Sequences, FiniteSets, TLC

VARIABLES
    pc,           \* position of the call: a step label, "returned" or "raised"
    fn,           \* the function being called
    coordinate,   \* <<lat, lon>> in units of 1/U degree
    zone_in,      \* utm_zone argument of a direct get_epsg_code call
    hemisphere,   \* hemisphere argument / local
    utm_zone,     \* local utm_zone of resample_and_extract_value
    epsg_code,    \* local epsg_code of resample_and_extract_value
    resolution,   \* <<old_resolution_meters, new_resolution_meters>>
    req_width,    \* dst_width as computed at line 46 (the requested width)
    req_height,   \* dst_height as computed at line 47 (the requested height)
    dst_width,    \* dst_width after line 49 (returned by the capability)
    dst_height,   \* dst_height after line 49
    data,         \* the resampled grid read at line 55
    pixel,        \* <<pixel_col, pixel_row>> of line 63
    window_size,  \* lee_filter's window_size
    rowcol,       \* <<row, col>> from dataset.index
    window,       \* the grid read by lee_filter / extract_values_at_coordinates
    result,       \* the value returned
    exc,          \* the exception propagated to the caller ("" if none)
    handle,       \* the raster handle: "closed" or "open"
    opens,        \* number of times the handle was opened in this call
    indexed,      \* number of dataset.index calls in this call
    reads         \* number of dataset.read calls in this call

vars == <<pc, fn, coordinate, zone_in, hemisphere, utm_zone, epsg_code, resolution,
          req_width, req_height, dst_width, dst_height, data, pixel, window_size,
          rowcol, window, result, exc, handle, opens, indexed, reads>>

----------------------------------------------------------------------------
(* Bounds of the model *)

U == 10 * 1000          \* fixed-point units per degree (179.9999 = 180*U - 1)
MaxZoneStep == 32       \* longitudes range over 6-degree steps -MaxZoneStep..MaxZoneStep
MaxRes == 2             \* resolutions in metres range over 1..MaxRes
RasterSize == 2         \* the raster is RasterSize x RasterSize pixels of 1 degree
MaxWindow == 2          \* window_size ranges over 1..MaxWindow
MaxVal == 1             \* pixel values of the filter window range over 0..MaxVal

----------------------------------------------------------------------------
(* Python / numpy primitives *)

\* int(a / b) for b > 0: truncation toward zero
TruncDiv(a, b) == IF a >= 0 THEN a \div b ELSE -((-a) \div b)

\* A float: NaN, +inf, -inf or a finite value counted in halves
Fin(h) == [cls |-> "fin", halves |-> h]
NaNF == [cls |-> "nan", halves |-> 0]
PosInf == [cls |-> "inf", halves |-> 0]
NegInf == [cls |-> "ninf", halves |-> 0]

\* int(x) on a float: ValueError on NaN, OverflowError on an infinity
PyInt(x) ==
    CASE x.cls = "nan" -> [exc |-> "ValueError", v |-> 0]
      [] x.cls \in {"inf", "ninf"} -> [exc |-> "OverflowError", v |-> 0]
      [] OTHER -> [exc |-> "", v |-> TruncDiv(x.halves, 2)]

\* numpy index i on an axis of length n: negative indices count from the end
NumpyIndex(i, n) ==
    IF i >= 0 /\ i < n THEN [exc |-> "", v |-> i]
    ELSE IF i < 0 /\ i >= -n THEN [exc |-> "", v |-> i + n]
    ELSE [exc |-> "IndexError", v |-> 0]

\* Scalars and results
NoneCell == [cls |-> "none", v |-> 0]
NanCell == [cls |-> "nan", v |-> 0]
Num(v) == [cls |-> "num", v |-> v]

Unset == [kind |-> "unset", items |-> <<>>]
NoneResult == [kind |-> "None", items |-> <<>>]
Scalar(c) == [kind |-> "scalar", items |-> <<c>>]
List(s) == [kind |-> "list", items |-> s]
Grid(g) == [kind |-> "grid", items |-> g]

----------------------------------------------------------------------------
(* CoordinateResolver: get_utm_zone, get_epsg_code *)

get_utm_zone_no_plus_one(longitude) ==
    LET zone_number == TruncDiv(longitude + 180 * U, 6 * U)
    IN  IF zone_number > 60 THEN 1 ELSE zone_number

get_utm_zone_wrap_at_60(longitude) ==
    LET zone_number == TruncDiv(longitude + 180 * U, 6 * U) + 1
    IN  IF zone_number >= 60 THEN 1 ELSE zone_number

get_utm_zone(longitude) ==
    LET zone_number == TruncDiv(longitude + 180 * U, 6 * U) + 1
    IN  IF zone_number > 60 THEN 1 ELSE zone_number

\* `return epsg_code` with epsg_code never bound raises UnboundLocalError
get_epsg_code(zone, hemi) ==
    IF hemi = "N" THEN [exc |-> "", v |-> 32600 + zone]
    ELSE IF hemi = "S" THEN [exc |-> "", v |-> 32700 + zone]
    ELSE [exc |-> "UnboundLocalError", v |-> 0]

HemisphereOfStrict(latitude) == IF latitude > 0 THEN "N" ELSE "S"

HemisphereOf(latitude) == IF latitude >= 0 THEN "N" ELSE "S"

----------------------------------------------------------------------------
(* Inputs *)

Lons == {6 * U * k + d : k \in (-MaxZoneStep)..MaxZoneStep, d \in {-1, 0, 1, 3 * U}}
Zones == 0..61
Hemispheres == {"N", "S", "n", "s", "E", ""}

\* Sampling points of resample_and_extract_value: <<lat, lon>>
SamplerLats == {-1, 0, 999 * U}
SamplerLons == {6 * U * k + d : k \in {-31, -30, 0, 29, 30}, d \in {-1, 0}} \cup {999 * U}
Resolutions == 1..MaxRes

\* Points of lee_filter / extract_values_at_coordinates, per axis
AxisVals == {-1, 0, U \div 2, (RasterSize - 1) * U, RasterSize * U, RasterSize * U + 1, 999 * U}
WindowSizes == 1..MaxWindow
Vals == 0..MaxVal

\* The state of the locals before the first statement of a call
Fresh ==
    /\ utm_zone = 0 /\ epsg_code = 0 /\ req_width = 0 /\ req_height = 0
    /\ dst_width = 0 /\ dst_height = 0 /\ data = [h |-> 0, w |-> 0, nan |-> "none"]
    /\ pixel = <<NaNF, NaNF>> /\ rowcol = <<0, 0>> /\ window = <<>>
    /\ result = Unset /\ exc = "" /\ handle = "closed" /\ opens = 0
    /\ indexed = 0 /\ reads = 0

Init ==
    /\ pc = "start"
    /\ Fresh
    /\ \/ /\ fn = "get_utm_zone"
          /\ \E l \in Lons : coordinate = <<0, l>>
          /\ zone_in = 0 /\ hemisphere = "" /\ resolution = <<1, 1>> /\ window_size = 0
       \/ /\ fn = "get_epsg_code"
          /\ zone_in \in Zones /\ hemisphere \in Hemispheres
          /\ coordinate = <<0, 0>> /\ resolution = <<1, 1>> /\ window_size = 0
       \/ /\ fn = "resample_and_extract_value"
          /\ coordinate \in SamplerLats \X SamplerLons
          /\ resolution \in Resolutions \X Resolutions
          /\ zone_in = 0 /\ hemisphere = "" /\ window_size = 0
       \/ /\ fn = "extract_values_at_coordinates"
          /\ coordinate \in AxisVals \X AxisVals
          /\ zone_in = 0 /\ hemisphere = "" /\ resolution = <<1, 1>> /\ window_size = 0
       \/ /\ fn = "lee_filter"
          /\ coordinate \in AxisVals \X AxisVals
          /\ window_size \in WindowSizes
          /\ zone_in = 0 /\ hemisphere = "" /\ resolution = <<1, 1>>

----------------------------------------------------------------------------
(* Direct calls of the helpers *)

CallGetUtmZone ==
    /\ pc = "start" /\ fn = "get_utm_zone"
    /\ result' = Scalar(Num(get_utm_zone(coordinate[2])))
    /\ pc' = "returned"
    /\ UNCHANGED <<fn, coordinate, zone_in, hemisphere, utm_zone, epsg_code, resolution,
                   req_width, req_height, dst_width, dst_height, data, pixel,
                   window_size, rowcol, window, exc, handle, opens, indexed, reads>>

CallGetEpsgCode ==
    /\ pc = "start" /\ fn = "get_epsg_code"
    /\ LET r == get_epsg_code(zone_in, hemisphere)
       IN  IF r.exc = ""
           THEN /\ result' = Scalar(Num(r.v)) /\ pc' = "returned" /\ exc' = exc
           ELSE /\ result' = result /\ pc' = "raised" /\ exc' = r.exc
    /\ UNCHANGED <<fn, coordinate, zone_in, hemisphere, utm_zone, epsg_code, resolution,
                   req_width, req_height, dst_width, dst_height, data, pixel,
                   window_size, rowcol, window, handle, opens, indexed, reads>>

----------------------------------------------------------------------------
(* The raster source: `with rasterio.open(tiff_file) as dataset` *)

RasterWidth == RasterSize
RasterHeight == RasterSize
BoundsLeft == 0
BoundsBottom == 0
BoundsRight == RasterWidth * U
BoundsTop == RasterHeight * U

OpensRaster == {"resample_and_extract_value", "extract_values_at_coordinates", "lee_filter"}

ExitScopeLeakOnError(h, raising) == IF raising THEN h ELSE "closed"

\* Leaving the `with` block, by a return or by an exception, closes the handle
ExitScope(h, raising) == "closed"

Open ==
    /\ pc = "start" /\ fn \in OpensRaster
    /\ handle' = "open" /\ opens' = opens + 1
    /\ pc' = "opened"
    /\ UNCHANGED <<fn, coordinate, zone_in, hemisphere, utm_zone, epsg_code, resolution,
                   req_width, req_height, dst_width, dst_height, data, pixel,
                   window_size, rowcol, window, result, exc, indexed, reads>>

\* rasterio.open raises (missing or corrupt file): nothing was opened
OpenFail ==
    /\ pc = "start" /\ fn \in OpensRaster
    /\ pc' = "raised" /\ exc' = "RasterioIOError"
    /\ UNCHANGED <<fn, coordinate, zone_in, hemisphere, utm_zone, epsg_code, resolution,
                   req_width, req_height, dst_width, dst_height, data, pixel,
                   window_size, rowcol, window, result, handle, opens, indexed, reads>>

----------------------------------------------------------------------------
(* resample_and_extract_value *)

TargetSizeInverted(dim, old, new) == TruncDiv(dim * old, new)

\* int(dataset.width * scale_factor) with scale_factor = new / old
TargetSize(dim, old, new) == TruncDiv(dim * new, old)

\* Cell (r, c), 0-based, of the resampled grid: cells hold distinct numbers,
\* with NaN where the mask says so
GridAt(d, r, c) ==
    IF \/ d.nan = "all"
       \/ d.nan = "first" /\ r = 0 /\ c = 0
       \/ d.nan = "last" /\ r = d.h - 1 /\ c = d.w - 1
    THEN NanCell
    ELSE Num(r * d.w + c)

NanMasks == {"none", "all", "first", "last"}

\* Fractional pixel coordinates the inverse transform can give on an axis of n cells
PixVals(n) ==
    {NaNF, PosInf, NegInf} \cup
    {Fin(h) : h \in {-2 * n - 2, -2 * n, -2, -1, 0, 2 * n - 1, 2 * n}}

R_TargetCRS ==
    /\ pc = "opened" /\ fn = "resample_and_extract_value"
    /\ LET z == get_utm_zone(coordinate[2])
           hs == HemisphereOf(coordinate[1])
           e == get_epsg_code(z, hs)
       IN  /\ utm_zone' = z
           /\ hemisphere' = hs
           /\ IF e.exc = ""
              THEN /\ epsg_code' = e.v /\ pc' = "scale"
                   /\ UNCHANGED <<exc, handle>>
              ELSE /\ epsg_code' = epsg_code /\ pc' = "raised" /\ exc' = e.exc
                   /\ handle' = ExitScope(handle, TRUE)
    /\ UNCHANGED <<fn, coordinate, zone_in, resolution, req_width, req_height,
                   dst_width, dst_height, data, pixel, window_size, rowcol, window,
                   result, opens, indexed, reads>>

\* lines 37-47: the point is reprojected, the requested target shape computed
R_Scale ==
    /\ pc = "scale"
    /\ req_width' = TargetSize(RasterWidth, resolution[1], resolution[2])
    /\ req_height' = TargetSize(RasterHeight, resolution[1], resolution[2])
    /\ dst_width' = req_width'
    /\ dst_height' = req_height'
    /\ pc' = "default_transform"
    /\ UNCHANGED <<fn, coordinate, zone_in, hemisphere, utm_zone, epsg_code, resolution,
                   data, pixel, window_size, rowcol, window, result, exc, handle,
                   opens, indexed, reads>>

\* lines 49-52: calculate_default_transform returns the shape, possibly adjusted
R_DefaultTransform ==
    /\ pc = "default_transform"
    /\ \E w \in {req_width, req_width + 1}, h \in {req_height, req_height + 1} :
          /\ w > 0 /\ h > 0
          /\ dst_width' = w
          /\ dst_height' = h
    /\ pc' = "read"
    /\ UNCHANGED <<fn, coordinate, zone_in, hemisphere, utm_zone, epsg_code, resolution,
                   req_width, req_height, data, pixel, window_size, rowcol, window,
                   result, exc, handle, opens, indexed, reads>>

R_DefaultTransformFail ==
    /\ pc = "default_transform"
    /\ pc' = "raised" /\ exc' = "CRSError"
    /\ handle' = ExitScope(handle, TRUE)
    /\ UNCHANGED <<fn, coordinate, zone_in, hemisphere, utm_zone, epsg_code, resolution,
                   req_width, req_height, dst_width, dst_height, data, pixel,
                   window_size, rowcol, window, result, opens, indexed, reads>>

\* lines 55-60: band 1 read into a grid of shape (dst_height, dst_width)
R_Read ==
    /\ pc = "read"
    /\ \E m \in NanMasks : data' = [h |-> dst_height, w |-> dst_width, nan |-> m]
    /\ reads' = reads + 1
    /\ pc' = "pixel"
    /\ UNCHANGED <<fn, coordinate, zone_in, hemisphere, utm_zone, epsg_code, resolution,
                   req_width, req_height, dst_width, dst_height, pixel, window_size,
                   rowcol, window, result, exc, handle, opens, indexed>>

R_ReadFail ==
    /\ pc = "read"
    /\ reads' = reads + 1
    /\ pc' = "raised" /\ exc' = "RasterioIOError"
    /\ handle' = ExitScope(handle, TRUE)
    /\ UNCHANGED <<fn, coordinate, zone_in, hemisphere, utm_zone, epsg_code, resolution,
                   req_width, req_height, dst_width, dst_height, data, pixel,
                   window_size, rowcol, window, result, opens, indexed>>

\* line 63: pixel_col, pixel_row = ~dst_transform * (easting, northing)
R_PixelCoords ==
    /\ pc = "pixel"
    /\ \E c \in PixVals(dst_width), r \in PixVals(dst_height) : pixel' = <<c, r>>
    /\ pc' = "extract"
    /\ UNCHANGED <<fn, coordinate, zone_in, hemisphere, utm_zone, epsg_code, resolution,
                   req_width, req_height, dst_width, dst_height, data, window_size,
                   rowcol, window, result, exc, handle, opens, indexed, reads>>

\* lines 64-73: data[int(pixel_row), int(pixel_col)] under
\* `except (IndexError, ValueError)`; int(pixel_row) is evaluated first
Caught == {"IndexError", "ValueError"}

ExtractValue(d, px) ==
    LET ir == PyInt(px[2])
        ic == PyInt(px[1])
        first == IF ir.exc # "" THEN ir.exc ELSE ic.exc
    IN  IF first # ""
        THEN IF first \in Caught THEN [exc |-> "", res |-> NoneResult]
             ELSE [exc |-> first, res |-> Unset]
        ELSE LET nr == NumpyIndex(ir.v, d.h)
                 nc == NumpyIndex(ic.v, d.w)
             IN  IF nr.exc # "" \/ nc.exc # ""
                 THEN [exc |-> "", res |-> NoneResult]
                 ELSE LET cell == GridAt(d, nr.v, nc.v)
                      IN  IF cell.cls = "nan" THEN [exc |-> "", res |-> NoneResult]
                          ELSE [exc |-> "", res |-> Scalar(cell)]

R_Extract ==
    /\ pc = "extract"
    /\ LET o == ExtractValue(data, pixel)
       IN  IF o.exc = ""
           THEN /\ result' = o.res /\ pc' = "returned" /\ exc' = exc
                /\ handle' = ExitScope(handle, FALSE)
           ELSE /\ result' = result /\ pc' = "raised" /\ exc' = o.exc
                /\ handle' = ExitScope(handle, TRUE)
    /\ UNCHANGED <<fn, coordinate, zone_in, hemisphere, utm_zone, epsg_code, resolution,
                   req_width, req_height, dst_width, dst_height, data, pixel,
                   window_size, rowcol, window, opens, indexed, reads>>

----------------------------------------------------------------------------
(* Bounds check, indexing and windowed reads shared by
   extract_values_at_coordinates and lee_filter *)

InBoundsLonOnly(lat, lon) == BoundsLeft <= lon /\ lon <= BoundsRight

\* bounds.left <= coordinate[1] <= bounds.right and
\* bounds.bottom <= coordinate[0] <= bounds.top
InBounds(lat, lon) ==
    /\ BoundsLeft <= lon /\ lon <= BoundsRight
    /\ BoundsBottom <= lat /\ lat <= BoundsTop

\* dataset.index(lon, lat) -> (row, col), pixels of one degree, rows from the top
RasterIndex(lon, lat) == <<(BoundsTop - lat) \div U, (lon - BoundsLeft) \div U>>

\* Rows and columns of the window ((row, row + n), (col, col + n)) that lie
\* in the raster
ClippedLen(start, n, size) ==
    LET stop == IF start + n < size THEN start + n ELSE size
    IN  IF stop > start THEN stop - start ELSE 0

FullyInside(rc, n) == rc[1] + n <= RasterHeight /\ rc[2] + n <= RasterWidth

\* The grids a read of nr x nc cells can give
Grids(nr, nc) == [1..nr -> [1..nc -> Vals]]

Bounded == {"extract_values_at_coordinates", "lee_filter"}

\* lines 137-138 / 159, 163-166, 183: the point is outside raster.bounds
OutOfBounds ==
    /\ pc = "opened" /\ fn \in Bounded
    /\ ~InBounds(coordinate[1], coordinate[2])
    /\ result' = IF fn = "lee_filter" THEN NoneResult ELSE List(<<NoneCell>>)
    /\ handle' = ExitScope(handle, FALSE)
    /\ pc' = "returned"
    /\ UNCHANGED <<fn, coordinate, zone_in, hemisphere, utm_zone, epsg_code, resolution,
                   req_width, req_height, dst_width, dst_height, data, pixel,
                   window_size, rowcol, window, exc, opens, indexed, reads>>

\* lines 131 / 167: row, col = dataset.index(coordinate[1], coordinate[0])
Index ==
    /\ pc = "opened" /\ fn \in Bounded
    /\ InBounds(coordinate[1], coordinate[2])
    /\ rowcol' = RasterIndex(coordinate[2], coordinate[1])
    /\ indexed' = indexed + 1
    /\ pc' = "window_read"
    /\ UNCHANGED <<fn, coordinate, zone_in, hemisphere, utm_zone, epsg_code, resolution,
                   req_width, req_height, dst_width, dst_height, data, pixel,
                   window_size, window, result, exc, handle, opens, reads>>

\* The read fails with an I/O error, which no handler of the call catches
WindowReadFail ==
    /\ pc = "window_read" /\ fn \in Bounded
    /\ reads' = reads + 1
    /\ pc' = "raised" /\ exc' = "RasterioIOError"
    /\ handle' = ExitScope(handle, TRUE)
    /\ UNCHANGED <<fn, coordinate, zone_in, hemisphere, utm_zone, epsg_code, resolution,
                   req_width, req_height, dst_width, dst_height, data, pixel,
                   window_size, rowcol, window, result, opens, indexed>>

----------------------------------------------------------------------------
(* extract_values_at_coordinates *)

\* lines 132-134, 139: the 1 x 1 window holds a cell; its [0, 0] is returned in a list
E_ReadValue ==
    /\ pc = "window_read" /\ fn = "extract_values_at_coordinates"
    /\ FullyInside(rowcol, 1)
    /\ \E g \in Grids(1, 1) :
          /\ window' = g
          /\ result' = List(<<Num(g[1][1])>>)
    /\ reads' = reads + 1
    /\ handle' = ExitScope(handle, FALSE)
    /\ pc' = "returned"
    /\ UNCHANGED <<fn, coordinate, zone_in, hemisphere, utm_zone, epsg_code, resolution,
                   req_width, req_height, dst_width, dst_height, data, pixel,
                   window_size, rowcol, exc, opens, indexed>>

\* lines 135-136, 139: the window lies outside the raster (a point on the bottom
\* or right edge); the read or the [0, 0] of the empty grid raises IndexError
E_ReadIndexError ==
    /\ pc = "window_read" /\ fn = "extract_values_at_coordinates"
    /\ ~FullyInside(rowcol, 1)
    /\ result' = List(<<NoneCell>>)
    /\ reads' = reads + 1
    /\ handle' = ExitScope(handle, FALSE)
    /\ pc' = "returned"
    /\ UNCHANGED <<fn, coordinate, zone_in, hemisphere, utm_zone, epsg_code, resolution,
                   req_width, req_height, dst_width, dst_height, data, pixel,
                   window_size, rowcol, window, exc, opens, indexed>>

----------------------------------------------------------------------------
(* lee_filter *)

RECURSIVE SeqSum(_)
SeqSum(s) == IF s = <<>> THEN 0 ELSE Head(s) + SeqSum(Tail(s))

Squares(s) == [k \in 1..Len(s) |-> s[k] * s[k]]

\* A rational number <<numerator, denominator>>, denominator > 0
RatEq(p, q) == p[1] * q[2] = q[1] * p[2]

lee_filter_single_pixel_corner(w, n) ==
    LET cnt == Len(w)
        s == SeqSum(w)
        v == cnt * SeqSum(Squares(w)) - s * s
    IN  IF v = 0 THEN <<s, cnt>> ELSE <<w[1] * v, v + cnt * cnt>>

\* lines 171-177.  With cnt = n * n values of sum s and sum of squares q,
\* local_mean = s / cnt and local_variance = v / cnt^2 for v = cnt * q - s^2;
\* w.reshape((n, n))[n // 2, n // 2] is element (n // 2) * n + n // 2 of w
lee_filter_single_pixel(w, n) ==
    LET cnt == Len(w)
        s == SeqSum(w)
        v == cnt * SeqSum(Squares(w)) - s * s
        center == w[(n \div 2) * n + (n \div 2) + 1]
    IN  IF v = 0 THEN <<s, cnt>> ELSE <<center * v, v + cnt * cnt>>

\* The buffer generic_filter hands to the callback for output cell (i, j),
\* 1-based: the n x n cells starting n // 2 above and left of (i, j), row by
\* row, 0 outside the input (mode='constant')
Footprint(win, i, j, n) ==
    [k \in 1..(n * n) |->
        LET r == i - (n \div 2) + ((k - 1) \div n)
            c == j - (n \div 2) + ((k - 1) % n)
        IN  IF r \in 1..Len(win) /\ c \in 1..Len(win[1]) THEN win[r][c] ELSE 0]

\* line 179: generic_filter(window, lee_filter_single_pixel, size=n, mode='constant')
generic_filter(win, n) ==
    [i \in 1..Len(win) |->
        [j \in 1..Len(win[1]) |-> lee_filter_single_pixel(Footprint(win, i, j, n), n)]]

\* line 169: the window read, clipped to the raster
L_Read ==
    /\ pc = "window_read" /\ fn = "lee_filter"
    /\ \E g \in Grids(ClippedLen(rowcol[1], window_size, RasterHeight),
                      ClippedLen(rowcol[2], window_size, RasterWidth)) :
          window' = g
    /\ reads' = reads + 1
    /\ pc' = "filter"
    /\ UNCHANGED <<fn, coordinate, zone_in, hemisphere, utm_zone, epsg_code, resolution,
                   req_width, req_height, dst_width, dst_height, data, pixel,
                   window_size, rowcol, result, exc, handle, opens, indexed>>

\* lines 180-181, 183: a window reaching outside the raster may make the read
\* raise IndexError, which is swallowed; filtered_value stays None
L_ReadIndexError ==
    /\ pc = "window_read" /\ fn = "lee_filter"
    /\ ~FullyInside(rowcol, window_size)
    /\ result' = NoneResult
    /\ reads' = reads + 1
    /\ handle' = ExitScope(handle, FALSE)
    /\ pc' = "returned"
    /\ UNCHANGED <<fn, coordinate, zone_in, hemisphere, utm_zone, epsg_code, resolution,
                   req_width, req_height, dst_width, dst_height, data, pixel,
                   window_size, rowcol, window, exc, opens, indexed>>

\* lines 179, 183: the whole filtered window is returned
L_Filter ==
    /\ pc = "filter"
    /\ result' = Grid(generic_filter(window, window_size))
    /\ handle' = ExitScope(handle, FALSE)
    /\ pc' = "returned"
    /\ UNCHANGED <<fn, coordinate, zone_in, hemisphere, utm_zone, epsg_code, resolution,
                   req_width, req_height, dst_width, dst_height, data, pixel,
                   window_size, rowcol, window, exc, opens, indexed, reads>>

----------------------------------------------------------------------------

Next ==
    \/ CallGetUtmZone
    \/ CallGetEpsgCode
    \/ Open
    \/ OpenFail
    \/ R_TargetCRS
    \/ R_Scale
    \/ R_DefaultTransform
    \/ R_DefaultTransformFail
    \/ R_Read
    \/ R_ReadFail
    \/ R_PixelCoords
    \/ R_Extract
    \/ OutOfBounds
    \/ Index
    \/ WindowReadFail
    \/ E_ReadValue
    \/ E_ReadIndexError
    \/ L_Read
    \/ L_ReadIndexError
    \/ L_Filter

Spec == Init /\ [][Next]_vars

Ended == pc \in {"returned", "raised"}

----------------------------------------------------------------------------
(* Properties *)

Sampler == fn = "resample_and_extract_value"
Lat == coordinate[1]
Lon == coordinate[2]
Old == resolution[1]
New == resolution[2]
ResultValue == result.items[1].v

\* C1 (as stated): once resample_and_extract_value has finite pixel
\* coordinates, it returns None whenever the truncated row is outside
\* [0, height) or the truncated column is outside [0, width), negative
\* indices included, and whenever the indexed value is NaN; it returns the
\* scalar grid value only when both truncated indices are inside the grid
\* and the value is not NaN.
C1_OutsideGridGivesNone ==
    (Sampler /\ Ended /\ pixel[1].cls = "fin" /\ pixel[2].cls = "fin") =>
        LET r == TruncDiv(pixel[2].halves, 2)
            c == TruncDiv(pixel[1].halves, 2)
            inside == r \in 0..(data.h - 1) /\ c \in 0..(data.w - 1)
        IN  /\ pc = "returned"
            /\ ~inside => result.kind = "None"
            /\ (inside /\ GridAt(data, r, c).cls = "nan") => result.kind = "None"
            /\ result.kind = "scalar" =>
                  /\ inside
                  /\ GridAt(data, r, c).cls = "num"
                  /\ result = Scalar(GridAt(data, r, c))

\* C2 (as stated): once the raster has been opened and read,
\* resample_and_extract_value never ends by propagating an exception,
\* whatever pixel coordinates the inverse transform gave (negative, beyond
\* the grid, NaN or infinite).
C2_NeverRaisesAfterRead ==
    ~(Sampler /\ pc = "raised" /\ data.h > 0)

\* C3: for a point outside raster.bounds, lee_filter returns None and
\* extract_values_at_coordinates returns [None], without raising and without
\* a call of dataset.index or dataset.read.
C3_OutsideBoundsNoneWithoutRead ==
    (fn \in Bounded /\ Ended /\ opens = 1
        /\ (Lon < BoundsLeft \/ Lon > BoundsRight \/ Lat < BoundsBottom \/ Lat > BoundsTop)) =>
        /\ pc = "returned" /\ exc = ""
        /\ fn = "lee_filter" => result.kind = "None"
        /\ fn = "extract_values_at_coordinates" => result = List(<<NoneCell>>)
        /\ indexed = 0 /\ reads = 0

C3_Witness ==
    /\ fn = "lee_filter" /\ pc = "returned"
    /\ coordinate = <<999 * U, 999 * U>>
    /\ result.kind = "None" /\ opens = 1 /\ reads = 0

\* The neighbourhood of cell (i, j) of win as a grid indexed from 0, 0 outside win
Neighbourhood(win, i, j, n) ==
    [a \in 0..(n - 1), b \in 0..(n - 1) |->
        LET r == i - (n \div 2) + a
            c == j - (n \div 2) + b
        IN  IF r >= 1 /\ r <= Len(win) /\ c >= 1 /\ c <= Len(win[1]) THEN win[r][c] ELSE 0]

RECURSIVE SetSum(_, _)
SetSum(f, S) ==
    IF S = {} THEN 0
    ELSE LET x == CHOOSE y \in S : TRUE IN f[x] + SetSum(f, S \ {x})

C5_ZoneInRange ==
    (fn = "get_utm_zone" /\ pc = "returned" /\ Lon >= -180 * U /\ Lon < 180 * U) =>
        /\ ResultValue \in 1..60
        /\ Lon = -180 * U => ResultValue = 1
        /\ Lon = 180 * U - 1 => ResultValue = 60

C5_Witness ==
    /\ fn = "get_utm_zone" /\ pc = "returned"
    /\ Lon = 180 * U - 1 /\ ResultValue = 60

\* C6: resample_and_extract_value derives one EPSG code per point:
\* 32600 + get_utm_zone(longitude) with hemisphere 'N' when latitude >= 0,
\* 32700 + get_utm_zone(longitude) with hemisphere 'S' when latitude < 0;
\* get_epsg_code(31, 'N') = 32631 and get_epsg_code(31, 'S') = 32731.
C6_EpsgFromPoint ==
    /\ (Sampler /\ opens = 1 /\ pc # "opened") =>
          /\ Lat >= 0 => (hemisphere = "N" /\ epsg_code = 32600 + utm_zone)
          /\ Lat < 0 => (hemisphere = "S" /\ epsg_code = 32700 + utm_zone)
          /\ utm_zone = get_utm_zone(Lon)
    /\ (fn = "get_epsg_code" /\ Ended /\ zone_in = 31) =>
          /\ hemisphere = "N" => (pc = "returned" /\ ResultValue = 32631)
          /\ hemisphere = "S" => (pc = "returned" /\ ResultValue = 32731)

C6_Witness ==
    /\ Sampler /\ pc = "scale"
    /\ coordinate = <<0, 0>> /\ hemisphere = "N" /\ epsg_code = 32631

\* C7 (as stated): get_epsg_code with a hemisphere that is neither 'N' nor 'S'
\* ends in the error UnsupportedHemisphereError, for every zone, and never
\* returns an EPSG code.
C7_UnsupportedHemisphereError ==
    (fn = "get_epsg_code" /\ Ended /\ hemisphere \notin {"N", "S"}) =>
        (pc = "raised" /\ exc = "UnsupportedHemisphereError")

C9_HandleClosedAtEnd ==
    fn \in OpensRaster =>
        /\ Ended => handle = "closed"
        /\ opens <= 1
        /\ handle = "open" => (opens = 1 /\ ~Ended)
        /\ pc \notin {"start", "raised"} => opens = 1

C9_Witness ==
    /\ Sampler /\ pc = "raised" /\ exc = "OverflowError"
    /\ opens = 1 /\ handle = "closed"

\* floor(x / (6 * U)) and int(x / (6 * U)), each stated by its bounds
FloorSixth(x) ==
    CHOOSE q \in (-(MaxZoneStep + 31))..(MaxZoneStep + 31) :
        6 * U * q <= x /\ x < 6 * U * (q + 1)

TowardZeroSixth(x) ==
    CHOOSE q \in (-(MaxZoneStep + 31))..(MaxZoneStep + 31) :
        IF x >= 0 THEN 6 * U * q <= x /\ x < 6 * U * (q + 1)
        ELSE 6 * U * (q - 1) < x /\ x <= 6 * U * q

\* C10 (as stated): for every longitude, below -180 and at or above 180
\* included, get_utm_zone is floor((longitude + 180) / 6) + 1, a value above
\* 60 replaced by 1, and the replacement happens only for longitude >= 180.
C10_ZoneIsFloor ==
    (fn = "get_utm_zone" /\ pc = "returned") =>
        LET z == FloorSixth(Lon + 180 * U) + 1
        IN  /\ ResultValue = IF z > 60 THEN 1 ELSE z
            /\ z > 60 => Lon >= 180 * U

\* C10 (amended): for every longitude get_utm_zone is
\* int((longitude + 180) / 6) + 1 with int rounding toward zero (the floor
\* for longitude >= -180, the ceiling below -180), a value above 60 replaced
\* by 1, and the replacement happens only for longitude >= 180.
C10_ZoneIsTruncation ==
    (fn = "get_utm_zone" /\ pc = "returned") =>
        LET z == TowardZeroSixth(Lon + 180 * U) + 1
        IN  /\ ResultValue = IF z > 60 THEN 1 ELSE z
            /\ z > 60 => Lon >= 180 * U
            /\ Lon >= -180 * U => z = FloorSixth(Lon + 180 * U) + 1

C10_Witness ==
    /\ fn = "get_utm_zone" /\ pc = "returned"
    /\ Lon = -180 * U - 1 /\ ResultValue = 1

====
